---- MODULE Spec2Model ----
(***************************************************************************)
(* Model of src/apiGroww.py: thirteen wrapper functions around a           *)
(* StructuredGrowwClient, and the driver test_groww_client.                *)
(*                                                                         *)
(* Every wrapper has the same body: evaluate the keyword arguments, call   *)
(* one client method, log the response at INFO and return it; an except    *)
(* clause logs at ERROR and returns None.  The client is external: it is   *)
(* modelled as a stub broker holding an order book, which may also raise   *)
(* any fault on any call.                                                  *)
(*                                                                         *)
(* Prices are integers here (the source passes 100.0); nothing in the      *)
(* wrappers computes with them.                                            *)
(***************************************************************************)
EXTENDS Integers, Sequences, FiniteSets, TLC

\* ------------------------------------------------------------- bounds

\* place_order calls a run may make (caps the broker's order book).
MaxPlace == 2

\* ------------------------------------------------------------- values

\* Python's None, and the absence of a return value when a fault propagates.
None == [kind |-> "None"]
NoValue == [kind |-> "NoValue"]

GrowwClientException == "GrowwClientException"
KeyError == "KeyError"
TypeError == "TypeError"
AttributeError == "AttributeError"

\* What a client call may do besides answering from the order book.
Faults == {"none", GrowwClientException, KeyError, TypeError}

Segments == {"CASH", "DERIVATIVES"}
Exchanges == {"NSE", "BSE"}
TransactionTypes == {"BUY", "SELL"}
OrderTypes == {"LIMIT", "MARKET"}
Products == {"CO", "CNC"}
Durations == {"DAY", "IOC"}
STOCK_SYMBOL_ISIN == "ISIN_A"
Symbols == {STOCK_SYMBOL_ISIN, "ISIN_B"}
Prices == {100, 0}
Qtys == {10, 1}
Timeouts == {5, 30}

INFO == "INFO"
ERROR == "ERROR"

OrderFields ==
  {"duration", "exchange", "transaction_type", "order_type", "price",
   "product", "qty", "segment", "symbol", "timeout"}

\* The arguments test_groww_client passes to place_order.
DriverOrderArgs ==
  [duration |-> "DAY", exchange |-> "NSE", transaction_type |-> "BUY",
   order_type |-> "LIMIT", price |-> 100, product |-> "CO", qty |-> 10,
   segment |-> "CASH", symbol |-> STOCK_SYMBOL_ISIN, timeout |-> 5]

\* The values each place_order parameter ranges over.
OrderDomain(f) ==
  CASE f = "duration" -> Durations
    [] f = "exchange" -> Exchanges
    [] f = "transaction_type" -> TransactionTypes
    [] f = "order_type" -> OrderTypes
    [] f = "price" -> Prices
    [] f = "product" -> Products
    [] f = "qty" -> Qtys
    [] f = "segment" -> Segments
    [] f = "symbol" -> Symbols
    [] f = "timeout" -> Timeouts

\* The place_order argument tuples the model tries: the driver's, and every
\* tuple that differs from it in one parameter.
OrderArgs ==
  UNION {{[DriverOrderArgs EXCEPT ![f] = v] : v \in OrderDomain(f)} : f \in OrderFields}

HandleOps == {"modify_order", "get_trades", "cancel_order", "get_order_details"}

\* ------------------------------------------------------------- state

VARIABLES
  broker,    \* the stub broker: its order book (orders[i] has id i) and its positions ledger
  broker0,   \* the broker when the latest wrapper call began
  placed,    \* place_order calls made, and placement requests the client received
  last,      \* the latest wrapper call: its arguments, client traffic, log entries and outcome
  drv        \* test_groww_client: status, program counter, locals, wrappers called so far

vars == <<broker, broker0, placed, last, drv>>

\* ------------------------------------------------------------- stub broker

OrderId(i) == <<"GMK", i>>
ReferenceId(i) == <<"REF", i>>

\* The OrderResponse attributes the wrappers read.
Handle(i) ==
  [kind |-> "OrderResponse", groww_order_id |-> OrderId(i),
   order_reference_id |-> ReferenceId(i)]

Handles(b) == {Handle(i) : i \in 1..Len(b.orders)}

\* The index of the order a request names, 0 when the book has none.
Lookup(b, id) ==
  IF \E i \in 1..Len(b.orders) : OrderId(i) = id
  THEN CHOOSE i \in 1..Len(b.orders) : OrderId(i) = id
  ELSE 0

Returns(value, b) == [kind |-> "return", value |-> value, broker |-> b]
Raises(exc, b) == [kind |-> "raise", exc |-> exc, broker |-> b]

EmptyBroker == [orders |-> << >>, positions |-> [x \in {} |-> 0]]

\* The ledger after an order of a symbol is executed in a segment.
Executed(positions, segment, symbol) ==
  LET key == <<segment, symbol>>
  IN [x \in DOMAIN positions \cup {key} |->
        IF x \in DOMAIN positions
        THEN (IF x = key THEN positions[x] + 1 ELSE positions[x])
        ELSE 1]

\* The symbols held in a segment, each with the number of executed orders.
PositionsIn(b, segment) ==
  [s \in {x[2] : x \in {y \in DOMAIN b.positions : y[1] = segment}} |->
     b.positions[<<segment, s>>]]

\* The segments a symbol is held in, each with the number of executed orders.
PositionsOf(b, symbol) ==
  [g \in {x[1] : x \in {y \in DOMAIN b.positions : y[2] = symbol}} |->
     b.positions[<<g, symbol>>]]

\* A stub broker.  It assigns ids in order of placement, executes MARKET orders
\* at once and leaves LIMIT orders open, and recognises an order by the ids and
\* the segment a request carries; modify and cancel need the order open.
StubBroker(req, b) ==
  LET k == req.kwargs
      i == Lookup(b, k.groww_order_id)
      known == i # 0 /\ b.orders[i].segment = k.segment
      knownRef == known /\ k.order_reference_id = ReferenceId(i)
      rejected == Raises(GrowwClientException, b)
  IN CASE req.method = "place_order" ->
            LET n == Len(b.orders) + 1
                status == IF k.order_type = "MARKET" THEN "EXECUTED" ELSE "OPEN"
            IN Returns([kind |-> "OrderResponse", groww_order_id |-> OrderId(n),
                        order_reference_id |-> ReferenceId(n),
                        order_status |-> status, request |-> k],
                       [orders |-> Append(b.orders, [segment |-> k.segment,
                                                     status |-> status]),
                        positions |-> IF status = "EXECUTED"
                                      THEN Executed(b.positions, k.segment, k.symbol)
                                      ELSE b.positions])
       [] req.method = "modify_order" ->
            IF knownRef /\ b.orders[i].status = "OPEN"
            THEN Returns([kind |-> "ModifyOrderResponse",
                          groww_order_id |-> k.groww_order_id,
                          order_status |-> "OPEN"], b)
            ELSE rejected
       [] req.method = "cancel_order" ->
            IF knownRef /\ b.orders[i].status = "OPEN"
            THEN Returns([kind |-> "CancelOrderResponse",
                          groww_order_id |-> k.groww_order_id,
                          order_status |-> "CANCELLED"],
                         [b EXCEPT !.orders[i].status = "CANCELLED"])
            ELSE rejected
       [] req.method = "get_order_detail" ->
            IF known
            THEN Returns([kind |-> "OrderDetailResponse",
                          groww_order_id |-> k.groww_order_id,
                          order_status |-> b.orders[i].status], b)
            ELSE rejected
       [] req.method = "get_trade_list_for_order" ->
            IF known
            THEN Returns([kind |-> "TradeResponse",
                          trade_list |-> IF b.orders[i].status = "EXECUTED"
                                         THEN <<[groww_order_id |-> k.groww_order_id]>>
                                         ELSE << >>], b)
            ELSE rejected
       [] req.method = "get_order_list" ->
            Returns([kind |-> "OrderListResponse",
                     order_list |-> [j \in 1..Len(b.orders) |->
                        [groww_order_id |-> OrderId(j),
                         order_status |-> b.orders[j].status]]], b)
       [] req.method = "get_holdings_for_user" ->
            Returns([kind |-> "HoldingsResponse",
                     holdings |-> PositionsIn(b, "CASH")], b)
       [] req.method = "get_positions_for_user" ->
            Returns([kind |-> "SymbolToPositionsResponse",
                     symbol_wise_positions |-> PositionsIn(b, k.segment)], b)
       [] req.method = "get_position_for_symbol" ->
            Returns([kind |-> "PositionsResponse",
                     positions |-> PositionsOf(b, k.symbol_isin)], b)
       [] OTHER ->
            Returns([kind |-> req.method, request |-> k], b)

\* One invocation of a client method: a fault of the transport or of the SDK's
\* parsing, or the broker's answer.
Client(req, b, fault) ==
  IF fault # "none" THEN Raises(fault, b) ELSE StubBroker(req, b)

\* ------------------------------------------------------------- wrappers

\* The parameters each wrapper declares, in order.
Params(op) ==
  CASE op \in {"get_latest_price_data", "get_market_depth"} ->
         <<"symbol", "exchange", "segment">>
    [] op = "place_order" ->
         <<"duration", "exchange", "transaction_type", "order_type", "price",
           "product", "qty", "segment", "symbol", "timeout">>
    [] op = "modify_order" ->
         <<"order_type", "price", "qty", "segment", "create_order_response">>
    [] op \in HandleOps \ {"modify_order"} -> <<"create_order_response">>
    [] op = "get_position_for_symbol" -> <<"symbol">>
    [] OTHER -> << >>

\* The number of positional parameters each wrapper declares.
Arity(op) == Len(Params(op))

\* Positional arguments bound to a wrapper's parameters, as many as it declares.
Bind(op, positional) ==
  [name \in {Params(op)[i] : i \in 1..Arity(op)} |->
     positional[CHOOSE i \in 1..Arity(op) : Params(op)[i] = name]]

\* logger.info's format string in each wrapper.
InfoMsg(op) ==
  CASE op = "get_current_orders" -> "Current orders: %s"
    [] op = "get_holdings" -> "Holdings: %s"
    [] op = "get_latest_index_data" -> "Latest index data: %s"
    [] op = "get_latest_price_data" -> "Latest price data: %s"
    [] op = "get_market_depth" -> "Market depth data: %s"
    [] op = "place_order" -> "Order placed: %s"
    [] op = "modify_order" -> "Order modified: %s"
    [] op = "get_trades" -> "Trades: %s"
    [] op = "cancel_order" -> "Order canceled: %s"
    [] op = "get_order_details" -> "Order details: %s"
    [] op = "get_positions" -> "Positions: %s"
    [] op = "get_position_for_symbol" -> "Positions for symbol: %s"
    [] op = "get_available_margin_for_user" -> "Margin available: %s"

\* logger.error's format string in each wrapper.
ErrorMsg(op) ==
  CASE op = "get_current_orders" -> "Failed to get orders: %s"
    [] op = "get_holdings" -> "Failed to get holdings: %s"
    [] op = "get_latest_index_data" -> "Failed to get latest index data: %s"
    [] op = "get_latest_price_data" -> "Failed to get latest price data: %s"
    [] op = "get_market_depth" -> "Failed to get market depth data: %s"
    [] op = "place_order" -> "Failed to place order: %s"
    [] op = "modify_order" -> "Failed to modify order: %s"
    [] op = "get_trades" -> "Failed to get trades: %s"
    [] op = "cancel_order" -> "Failed to cancel order: %s"
    [] op = "get_order_details" -> "Failed to get order details: %s"
    [] op = "get_positions" -> "Failed to get positions: %s"
    [] op = "get_position_for_symbol" -> "Failed to get positions for symbol: %s"
    [] op = "get_available_margin_for_user" -> "Failed to get margin available: %s"

\* Mutant: every wrapper catches Exception.
CaughtAll(op) == {GrowwClientException, KeyError, TypeError, AttributeError}

\* Mutant: the except clauses name KeyError only.
CaughtKeyErrorOnly(op) == {KeyError}

\* The exception classes each wrapper's except clause names.
Caught(op) ==
  IF op = "get_order_details"
  THEN {GrowwClientException, KeyError}
  ELSE {GrowwClientException}

\* Whether Python takes a response for false (bool(x)): an empty sequence or mapping.
Falsy(value) ==
  CASE value.kind = "TradeResponse" -> value.trade_list = << >>
    [] value.kind = "SymbolToPositionsResponse" ->
         DOMAIN value.symbol_wise_positions = {}
    [] value.kind = "PositionsResponse" -> DOMAIN value.positions = {}
    [] value.kind = "OrderListResponse" -> value.order_list = << >>
    [] value.kind = "HoldingsResponse" -> DOMAIN value.holdings = {}
    [] OTHER -> FALSE

\* Mutant: "return response or None".
OnSuccessOrNone(op, value) ==
  [ret |-> IF Falsy(value) THEN None ELSE value,
   logs |-> <<[level |-> INFO, msg |-> InfoMsg(op)]>>]

\* The try body after the client call: logger.info(...), return the response.
OnSuccess(op, value) ==
  [ret |-> value, logs |-> <<[level |-> INFO, msg |-> InfoMsg(op)]>>]

\* Mutant: the handler returns None without logging.
OnCaughtSilent(op, exc) == [ret |-> None, logs |-> << >>]

\* The except body: logger.error(...), return None.
OnCaught(op, exc) ==
  [ret |-> None, logs |-> <<[level |-> ERROR, msg |-> ErrorMsg(op)]>>]

\* Mutant: price and qty change places, and the timeout is the constant 5 of
\* the other wrappers.
place_order_kwargs_swapped(a) ==
  [duration |-> a.duration, exchange |-> a.exchange,
   transaction_type |-> a.transaction_type, order_type |-> a.order_type,
   price |-> a.qty, product |-> a.product, qty |-> a.price,
   segment |-> a.segment, symbol |-> a.symbol, timeout |-> 5]

\* The keyword arguments place_order passes to groww_client.place_order.
place_order_kwargs(a) ==
  [duration |-> a.duration, exchange |-> a.exchange,
   transaction_type |-> a.transaction_type, order_type |-> a.order_type,
   price |-> a.price, product |-> a.product, qty |-> a.qty,
   segment |-> a.segment, symbol |-> a.symbol, timeout |-> a.timeout]

modify_order_kwargs(a) ==
  [groww_order_id |-> a.create_order_response.groww_order_id,
   order_reference_id |-> a.create_order_response.order_reference_id,
   order_type |-> a.order_type, price |-> a.price, qty |-> a.qty,
   segment |-> a.segment, timeout |-> 5]

get_trades_kwargs(a) ==
  [groww_order_id |-> a.create_order_response.groww_order_id,
   segment |-> "CASH", timeout |-> 5]

cancel_order_kwargs(a) ==
  [groww_order_id |-> a.create_order_response.groww_order_id,
   order_reference_id |-> a.create_order_response.order_reference_id,
   segment |-> "CASH", timeout |-> 5]

get_order_details_kwargs(a) ==
  [groww_order_id |-> a.create_order_response.groww_order_id,
   segment |-> "CASH", timeout |-> 5]

\* The client method each wrapper calls, with its keyword arguments.
Request(op, a) ==
  CASE op = "get_current_orders" ->
         [method |-> "get_order_list", kwargs |-> << >>]
    [] op = "get_holdings" ->
         [method |-> "get_holdings_for_user", kwargs |-> [timeout |-> 5]]
    [] op = "get_latest_index_data" ->
         [method |-> "get_latest_index_data",
          kwargs |-> [symbol |-> "NIFTY", exchange |-> "NSE",
                      segment |-> "CASH", timeout |-> 5]]
    [] op = "get_latest_price_data" ->
         [method |-> "get_latest_price_data",
          kwargs |-> [symbol |-> a.symbol, exchange |-> a.exchange,
                      segment |-> a.segment, timeout |-> 5]]
    [] op = "get_market_depth" ->
         [method |-> "get_market_depth",
          kwargs |-> [symbol |-> a.symbol, exchange |-> a.exchange,
                      segment |-> a.segment, timeout |-> 5]]
    [] op = "place_order" ->
         [method |-> "place_order", kwargs |-> place_order_kwargs(a)]
    [] op = "modify_order" ->
         [method |-> "modify_order", kwargs |-> modify_order_kwargs(a)]
    [] op = "get_trades" ->
         [method |-> "get_trade_list_for_order", kwargs |-> get_trades_kwargs(a)]
    [] op = "cancel_order" ->
         [method |-> "cancel_order", kwargs |-> cancel_order_kwargs(a)]
    [] op = "get_order_details" ->
         [method |-> "get_order_detail", kwargs |-> get_order_details_kwargs(a)]
    [] op = "get_positions" ->
         [method |-> "get_positions_for_user",
          kwargs |-> [segment |-> "CASH", timeout |-> 5]]
    [] op = "get_position_for_symbol" ->
         [method |-> "get_position_for_symbol",
          kwargs |-> [symbol_isin |-> a.symbol, timeout |-> 5]]
    [] op = "get_available_margin_for_user" ->
         [method |-> "get_available_margin_details", kwargs |-> [timeout |-> 5]]

\* The fault raised while the keyword arguments are evaluated, before the client
\* is called: an attribute read on a None create_order_response.
ArgFault(op, a) ==
  IF op \in HandleOps /\ a.create_order_response = None
  THEN AttributeError
  ELSE "none"

\* What one wrapper call does: the requests the client received (sent) and how
\* it answered each (answers), the log entries emitted, the value returned or
\* the fault raised to the caller, and the broker afterwards.
Outcome(sent, answers, logs, ret, raised, b) ==
  [sent |-> sent, answers |-> answers, logs |-> logs, ret |-> ret,
   raised |-> raised, broker |-> b]

\* Mutant: a caught failure is retried once.
FacadeRetry(op, a, b, fault) ==
  IF ArgFault(op, a) # "none"
  THEN Outcome(<< >>, << >>, << >>, NoValue, ArgFault(op, a), b)
  ELSE
    LET req == Request(op, a)
        c == Client(req, b, fault)
        d == Client(req, c.broker, fault)
    IN IF c.kind = "return"
       THEN Outcome(<<req>>, <<"return">>, OnSuccess(op, c.value).logs,
                    OnSuccess(op, c.value).ret, "none", c.broker)
       ELSE IF c.exc \notin Caught(op)
       THEN Outcome(<<req>>, <<c.exc>>, << >>, NoValue, c.exc, c.broker)
       ELSE IF d.kind = "return"
       THEN Outcome(<<req, req>>, <<c.exc, "return">>, OnSuccess(op, d.value).logs,
                    OnSuccess(op, d.value).ret, "none", d.broker)
       ELSE Outcome(<<req, req>>, <<c.exc, d.exc>>, OnCaught(op, d.exc).logs,
                    OnCaught(op, d.exc).ret, "none", d.broker)

\* The body every wrapper shares: try: response = groww_client.<method>(...);
\* logger.info; return response; except <Caught>: logger.error; return None.
Facade(op, a, b, fault) ==
  IF ArgFault(op, a) # "none"
  THEN Outcome(<< >>, << >>, << >>, NoValue, ArgFault(op, a), b)
  ELSE
    LET req == Request(op, a)
        c == Client(req, b, fault)
    IN IF c.kind = "return"
       THEN Outcome(<<req>>, <<"return">>, OnSuccess(op, c.value).logs,
                    OnSuccess(op, c.value).ret, "none", c.broker)
       ELSE IF c.exc \in Caught(op)
       THEN Outcome(<<req>>, <<c.exc>>, OnCaught(op, c.exc).logs,
                    OnCaught(op, c.exc).ret, "none", c.broker)
       ELSE Outcome(<<req>>, <<c.exc>>, << >>, NoValue, c.exc, c.broker)

\* The effect of one wrapper call on the state.
Call(op, a, fault) ==
  \E r \in {Facade(op, a, broker, fault)} :
     /\ broker' = r.broker
     /\ broker0' = broker
     /\ placed' = IF op = "place_order"
                  THEN [calls |-> placed.calls + 1,
                        requests |-> placed.requests
                          + Cardinality({n \in 1..Len(r.sent) :
                                           r.sent[n].method = "place_order"})]
                  ELSE placed
     /\ last' = [op |-> op, args |-> a,
                 fault |-> IF r.sent = << >> THEN "none" ELSE fault,
                 sent |-> r.sent, answers |-> r.answers, logs |-> r.logs,
                 ret |-> r.ret, raised |-> r.raised]

NoArgs == << >>

\* No wrapper has been called in this process yet.
NoCall ==
  [op |-> "none", args |-> NoArgs, fault |-> "none", sent |-> << >>,
   answers |-> << >>, logs |-> << >>, ret |-> NoValue, raised |-> "none"]

\* The create_order_response values a caller may pass.
HandleArgs == {None} \cup Handles(broker)

\* The order_type, price, qty and segment a caller passes to modify_order.
ModifyArgs ==
  {[f \in {"order_type", "price", "qty", "segment"} |-> a[f]] : a \in OrderArgs}

\* The symbol, exchange and segment a caller passes to the market-data wrappers.
QuoteArgs ==
  {[f \in {"symbol", "exchange", "segment"} |-> a[f]] : a \in OrderArgs}

\* A caller other than the driver: the module imported, its functions called.
Idle == drv.status = "idle"

get_current_orders ==
  /\ Idle
  /\ \E fault \in Faults : Call("get_current_orders", NoArgs, fault)
  /\ UNCHANGED drv

get_holdings ==
  /\ Idle
  /\ \E fault \in Faults : Call("get_holdings", NoArgs, fault)
  /\ UNCHANGED drv

get_latest_index_data ==
  /\ Idle
  /\ \E fault \in Faults : Call("get_latest_index_data", NoArgs, fault)
  /\ UNCHANGED drv

get_latest_price_data ==
  /\ Idle
  /\ \E q \in QuoteArgs, fault \in Faults : Call("get_latest_price_data", q, fault)
  /\ UNCHANGED drv

get_market_depth ==
  /\ Idle
  /\ \E q \in QuoteArgs, fault \in Faults : Call("get_market_depth", q, fault)
  /\ UNCHANGED drv

place_order ==
  /\ Idle
  /\ placed.calls < MaxPlace
  /\ \E a \in OrderArgs, fault \in Faults : Call("place_order", a, fault)
  /\ UNCHANGED drv

modify_order ==
  /\ Idle
  /\ \E m \in ModifyArgs, h \in HandleArgs, fault \in Faults :
       Call("modify_order",
            [order_type |-> m.order_type, price |-> m.price, qty |-> m.qty,
             segment |-> m.segment, create_order_response |-> h], fault)
  /\ UNCHANGED drv

get_trades ==
  /\ Idle
  /\ \E h \in HandleArgs, fault \in Faults :
       Call("get_trades", [create_order_response |-> h], fault)
  /\ UNCHANGED drv

cancel_order ==
  /\ Idle
  /\ \E h \in HandleArgs, fault \in Faults :
       Call("cancel_order", [create_order_response |-> h], fault)
  /\ UNCHANGED drv

get_order_details ==
  /\ Idle
  /\ \E h \in HandleArgs, fault \in Faults :
       Call("get_order_details", [create_order_response |-> h], fault)
  /\ UNCHANGED drv

get_positions ==
  /\ Idle
  /\ \E fault \in Faults : Call("get_positions", NoArgs, fault)
  /\ UNCHANGED drv

get_position_for_symbol ==
  /\ Idle
  /\ \E symbol \in Symbols, fault \in Faults :
       Call("get_position_for_symbol", [symbol |-> symbol], fault)
  /\ UNCHANGED drv

get_available_margin_for_user ==
  /\ Idle
  /\ \E fault \in Faults : Call("get_available_margin_for_user", NoArgs, fault)
  /\ UNCHANGED drv

\* ------------------------------------------------------------- driver

\* The statements of test_groww_client: the wrapper called, the number of
\* positional arguments the call passes, and the condition it stands under.
DriverProgram ==
  << [op |-> "get_current_orders", cond |-> "always"],
     [op |-> "get_latest_index_data", cond |-> "always"],
     [op |-> "get_latest_price_data", cond |-> "always"],
     [op |-> "get_market_depth", cond |-> "always"],
     [op |-> "get_holdings", cond |-> "always"],
     [op |-> "place_order", cond |-> "always"],
     [op |-> "get_order_details", cond |-> "create_order_response"],
     [op |-> "get_trades", cond |-> "create_order_response"],
     [op |-> "get_positions", cond |-> "always"],
     [op |-> "get_position_for_symbol", cond |-> "positions"] >>

\* "if create_order_response:" and
\* "if positions and len(positions.symbol_wise_positions) > 0:".
DriverCond(s, d) ==
  CASE s.cond = "always" -> TRUE
    [] s.cond = "create_order_response" -> d.create_order_response # None
    [] s.cond = "positions" ->
         /\ d.positions # None
         /\ DOMAIN d.positions.symbol_wise_positions # {}

\* "symbol = list(positions.symbol_wise_positions.keys())[0]": the first key in
\* the mapping's own order, which the response does not fix: any of its keys.
FirstKeys(s, d) ==
  IF s.op = "get_position_for_symbol"
  THEN DOMAIN d.positions.symbol_wise_positions
  ELSE {None}

\* The positional arguments the driver passes at a statement; symbol is the
\* local of that name.
DriverArgs(s, d, symbol) ==
  CASE s.op = "place_order" ->
         <<"DAY", "NSE", "BUY", "LIMIT", 100, "CO", 10, "CASH",
           STOCK_SYMBOL_ISIN, 5>>
    [] s.op \in {"get_order_details", "get_trades"} -> <<d.create_order_response>>
    [] s.op = "get_position_for_symbol" -> <<"groww_client", symbol>>
    [] OTHER -> << >>

\* The driver after a statement: at the next one, or returned after the last.
DriverAdvance(d) ==
  IF d.pc = Len(DriverProgram)
  THEN [d EXCEPT !.status = "returned"]
  ELSE [d EXCEPT !.pc = d.pc + 1]

DriverInit ==
  [status |-> "idle", pc |-> 1, create_order_response |-> None,
   positions |-> None, symbol |-> None, trace |-> << >>, allOk |-> TRUE,
   raised |-> "none"]

\* if __name__ == "__main__": test_groww_client(), in a process of its own: the
\* broker keeps what earlier sessions left there.
main ==
  /\ Idle
  /\ drv' = [drv EXCEPT !.status = "running"]
  /\ last' = NoCall
  /\ broker0' = broker
  /\ UNCHANGED <<broker, placed>>

\* One statement of test_groww_client.  A call whose argument count does not
\* fit the wrapper's parameters raises TypeError in the driver, before the
\* wrapper's body runs; a fault a wrapper lets through ends the driver too.
test_groww_client ==
  /\ drv.status = "running"
  /\ LET s == DriverProgram[drv.pc]
     IN IF ~DriverCond(s, drv)
        THEN /\ drv' = DriverAdvance(drv)
             /\ UNCHANGED <<broker, broker0, placed, last>>
        ELSE \E fault \in Faults, symbol \in FirstKeys(s, drv) :
               LET positional == DriverArgs(s, drv, symbol)
                   a == Bind(s.op, positional)
                   r == Facade(s.op, a, broker, fault)
                   d == [drv EXCEPT
                           !.symbol = symbol,
                           !.trace = Append(@, s.op),
                           !.allOk = @ /\ \A n \in 1..Len(r.answers) :
                                              r.answers[n] = "return",
                           !.create_order_response =
                              IF s.op = "place_order" /\ r.raised = "none"
                              THEN r.ret ELSE @,
                           !.positions =
                              IF s.op = "get_positions" /\ r.raised = "none"
                              THEN r.ret ELSE @]
               IN IF Len(positional) # Arity(s.op)
                  THEN /\ drv' = [drv EXCEPT !.symbol = symbol,
                                             !.status = "raised",
                                             !.raised = TypeError]
                       /\ UNCHANGED <<broker, broker0, placed, last>>
                  ELSE /\ Call(s.op, a, fault)
                       /\ drv' = IF r.raised # "none"
                                 THEN [d EXCEPT !.status = "raised",
                                                !.raised = r.raised]
                                 ELSE DriverAdvance(d)

\* ------------------------------------------------------------- specification

Init ==
  /\ broker = EmptyBroker
  /\ broker0 = EmptyBroker
  /\ placed = [calls |-> 0, requests |-> 0]
  /\ last = NoCall
  /\ drv = DriverInit

Next ==
  \/ get_current_orders
  \/ get_holdings
  \/ get_latest_index_data
  \/ get_latest_price_data
  \/ get_market_depth
  \/ place_order
  \/ modify_order
  \/ get_trades
  \/ cancel_order
  \/ get_order_details
  \/ get_positions
  \/ get_position_for_symbol
  \/ get_available_margin_for_user
  \/ main
  \/ test_groww_client

Spec == Init /\ [][Next]_vars

\* ------------------------------------------------------------- properties

\* A wrapper has been called in this process.
Called == last.op # "none"

\* How the client answered the latest wrapper call: "return", the exception it
\* raised, or "uncalled" when the wrapper never reached it.
Answer ==
  IF last.answers = << >> THEN "uncalled" ELSE last.answers[Len(last.answers)]

\* The latest call passed None for create_order_response.
NoneHandle == last.op \in HandleOps /\ last.args.create_order_response = None

\* The fault, if any, that arose inside the latest wrapper call.
Arisen ==
  IF NoneHandle THEN AttributeError
  ELSE IF Answer \in {"return", "uncalled"} THEN "none"
  ELSE Answer

\* The latest call logged exactly one entry, at the given level.
LoggedOnce(level) == Len(last.logs) = 1 /\ last.logs[1].level = level

\* The latest call acted on an order the broker held when the call began: its index.
Target ==
  IF last.op \in HandleOps /\ ~NoneHandle
  THEN Lookup(broker0, last.args.create_order_response.groww_order_id)
  ELSE 0

\* C1: whenever the client call raises GrowwClientException, the wrapper
\* returns None, logs exactly one entry, at ERROR (so none at INFO), and raises
\* nothing to its caller.
C1_OperationalFailure ==
  (Called /\ Answer = GrowwClientException) =>
     /\ last.ret = None
     /\ last.raised = "none"
     /\ LoggedOnce(ERROR)

\* A cancel_order that the broker itself rejected came back as None.
C1_Witness ==
  /\ last.op = "cancel_order"
  /\ last.fault = "none"
  /\ last.answers = <<GrowwClientException>>
  /\ last.ret = None
  /\ last.logs = <<[level |-> ERROR, msg |-> "Failed to cancel order: %s"]>>

\* C2 as stated: every wrapper call, whatever its outcome, logs exactly one
\* entry: at INFO when the client call succeeded, at ERROR otherwise.
C2_Original ==
  Called => LoggedOnce(IF Answer = "return" THEN INFO ELSE ERROR)

\* C2, amended: a wrapper call that returns to its caller has logged exactly one
\* entry, at INFO when the client call succeeded and at ERROR when the client
\* raised a fault the wrapper catches; a call whose fault propagates has logged
\* nothing.
C2_LogPerReturn ==
  Called =>
     IF last.raised = "none"
     THEN LoggedOnce(IF Answer = "return" THEN INFO ELSE ERROR)
     ELSE last.logs = << >>

\* get_order_details caught a KeyError and logged it once at ERROR.
C2_Witness ==
  /\ last.op = "get_order_details"
  /\ last.answers = <<KeyError>>
  /\ last.raised = "none"
  /\ last.logs = <<[level |-> ERROR, msg |-> "Failed to get order details: %s"]>>

\* C3: for an order placed in any segment, modify_order, cancel_order,
\* get_order_details and get_trades, called with the placed order's response
\* against the broker that recognises the order by its ids and its segment (the
\* order open for modify and cancel, the caller passing the order's segment to
\* modify_order, the client raising no fault of its own), return a non-None
\* result, each having sent the order's ids and segment.
C3_HandleOpsSucceed ==
  (/\ Called
   /\ Target # 0
   /\ last.fault = "none"
   /\ last.op = "modify_order" => last.args.segment = broker0.orders[Target].segment
   /\ last.op \in {"modify_order", "cancel_order"} =>
        broker0.orders[Target].status = "OPEN")
  =>
     /\ last.raised = "none"
     /\ last.ret # None
     /\ last.sent[1].kwargs.groww_order_id = OrderId(Target)
     /\ last.op \in {"modify_order", "cancel_order"} =>
          last.sent[1].kwargs.order_reference_id = ReferenceId(Target)
     /\ last.sent[1].kwargs.segment = broker0.orders[Target].segment

\* C4: whenever the client call raises KeyError, the wrapper logs one ERROR
\* entry and returns None, as it does for GrowwClientException.
C4_SchemaFailure ==
  (Called /\ Answer = KeyError) =>
     /\ last.ret = None
     /\ last.raised = "none"
     /\ LoggedOnce(ERROR)

\* C5: cancel_order on a handle whose order is open at the broker returns the
\* cancellation confirmation; cancel_order on the same handle once the order is
\* terminal returns None and raises nothing.
C5_CancelTwice ==
  (Called /\ last.op = "cancel_order" /\ Target # 0 /\ last.fault = "none") =>
     /\ last.raised = "none"
     /\ IF broker0.orders[Target].status = "OPEN"
        THEN /\ last.ret.kind = "CancelOrderResponse"
             /\ broker.orders[Target].status = "CANCELLED"
        ELSE last.ret = None

\* C6 as stated: a fault other than GrowwClientException is never turned into
\* None: it reaches the caller unchanged and the wrapper returns nothing.
C6_Original ==
  (Called /\ Arisen \notin {"none", GrowwClientException}) =>
     /\ last.raised = Arisen
     /\ last.ret = NoValue

\* C6, amended: a fault other than GrowwClientException, and other than a
\* KeyError inside get_order_details, reaches the caller unchanged and the
\* wrapper returns nothing; get_order_details turns a KeyError into None.
C6_UncaughtPropagates ==
  (Called /\ Arisen \notin {"none", GrowwClientException}) =>
     IF last.op = "get_order_details" /\ Arisen = KeyError
     THEN last.raised = "none" /\ last.ret = None
     ELSE last.raised = Arisen /\ last.ret = NoValue

\* modify_order let a TypeError of the client through.
C6_Witness ==
  /\ last.op = "modify_order"
  /\ last.answers = <<TypeError>>
  /\ last.raised = TypeError
  /\ last.ret = NoValue

\* C7: an empty response of the client (no positions, no fills) is returned as
\* it is, not as None, and logged at INFO; None is returned only when the
\* client raised.
C7_EmptyIsNotFailure ==
  Called =>
     /\ Answer = "return" =>
          /\ last.ret = StubBroker(last.sent[1], broker0).value
          /\ last.ret # None
          /\ LoggedOnce(INFO)
     /\ last.ret = None => Answer \notin {"return", "uncalled"}

\* get_positions returned the empty mapping of an account without positions.
C7_Witness ==
  /\ last.op = "get_positions"
  /\ last.answers = <<"return">>
  /\ last.ret.kind = "SymbolToPositionsResponse"
  /\ DOMAIN last.ret.symbol_wise_positions = {}
  /\ last.logs = <<[level |-> INFO, msg |-> "Positions: %s"]>>

\* C8 as stated: every wrapper call invokes the client exactly once, and the
\* client has received as many placement requests as place_order was called.
C8_Original ==
  /\ Called => Len(last.sent) = 1
  /\ placed.requests = placed.calls

\* C8, amended: a wrapper call invokes the client at most once: exactly once,
\* unless it was passed None for create_order_response, in which case the fault
\* arises before the client is reached; and the client has received as many
\* placement requests as place_order was called.
C8_NoRetry ==
  /\ Called => Len(last.sent) = (IF NoneHandle THEN 0 ELSE 1)
  /\ placed.requests = placed.calls

\* place_order was called twice with the driver's arguments and the broker
\* holds two orders alike.
C8_Witness ==
  /\ last.op = "place_order"
  /\ last.args = DriverOrderArgs
  /\ placed = [calls |-> 2, requests |-> 2]
  /\ Len(broker.orders) = 2
  /\ broker.orders[1] = broker.orders[2]

\* C9: place_order passes each of its ten parameters to the client under the
\* parameter's name and with its value, and returns the client's response as it
\* is: the echoing broker's response carries the arguments and the new order id.
C9_RoundTrip ==
  (Called /\ last.op = "place_order") =>
     /\ Len(last.sent) = 1
     /\ last.sent[1].method = "place_order"
     /\ DOMAIN last.sent[1].kwargs = OrderFields
     /\ \A f \in OrderFields : last.sent[1].kwargs[f] = last.args[f]
     /\ Answer = "return" =>
          /\ \A f \in OrderFields : last.ret.request[f] = last.args[f]
          /\ last.ret.groww_order_id = OrderId(Len(broker0.orders) + 1)
          /\ Len(broker.orders) = Len(broker0.orders) + 1

\* A placement with a timeout and a price other than the driver's came back echoed.
C9_Witness ==
  /\ last.op = "place_order"
  /\ last.answers = <<"return">>
  /\ last.args.timeout = 30
  /\ last.ret.request = last.args
  /\ last.ret.groww_order_id = OrderId(2)

\* The wrappers the driver is written to call when every call succeeds, a
\* response comes back from place_order, and positions are (or are not) held.
DriverFlow(held) ==
  << "get_current_orders", "get_latest_index_data", "get_latest_price_data",
     "get_market_depth", "get_holdings", "place_order", "get_order_details",
     "get_trades", "get_positions" >>
  \o (IF held THEN <<"get_position_for_symbol">> ELSE << >>)

\* C10: run against a client whose every call succeeds, test_groww_client
\* returns normally, having called the five get wrappers, place_order once,
\* get_order_details and get_trades, get_positions and, when positions are held,
\* get_position_for_symbol, in this order.
C10_DriverCompletes ==
  (drv.status \in {"returned", "raised"} /\ drv.allOk) =>
     /\ drv.status = "returned"
     /\ drv.trace = DriverFlow(DOMAIN drv.positions.symbol_wise_positions # {})

====
